---- MODULE Spec2Model ----
(***************************************************************************)
(* Model of autots/tools/impute.py: the missing-value fill routines        *)
(* (fill_zero, fill_forward, fill_mean, fill_median, rolling_mean,         *)
(* biased_ffill), the gap compressor fake_date_fill with its tail          *)
(* policies, the FillNA dispatcher and SeasonalityMotifImputer.impute.     *)
(*                                                                         *)
(* A table is a record [index, columns, data]: index is the sequence of    *)
(* row labels, columns the sequence of column labels and data[r][c] the    *)
(* cell of row r, column c.  A cell is a pair <<n, d>>: the rational n/d   *)
(* in lowest terms when d > 0, the float NaN when d = 0.  Arithmetic is    *)
(* exact; float rounding and the infinities are outside the model.         *)
(***************************************************************************)
EXTENDS Integers, Sequences, FiniteSets, TLC

VARIABLES df, pc, back_method, method, window, k, scores, result, raised, df_impt

vars == <<df, pc, back_method, method, window, k, scores, result, raised, df_impt>>

(***************************************************************************)
(* Bounds of the model.                                                    *)
(***************************************************************************)
\* Small tables: 1..MaxRows rows, 1..MaxCols columns, and at most MaxOdd cells
\* missing or at most MaxOdd cells present.
MaxRows == 3
MaxCols == 2
MaxOdd == 2
\* Value schemes 0..MaxScheme (see CellValue).
MaxScheme == 1
\* Tall tables: MinSliceRows..MinSliceRows+TallExtra rows, 1..TallCols columns,
\* the columns with 0..MaxGap missing cells or wholly missing.
TallExtra == 1
TallCols == 4
MaxGap == 1
\* Neighbour counts 1..MaxK and rolling windows 1..MaxWindow.
MaxK == 3
MaxWindow == 2
\* Score matrices with shifts 0..MaxShift (see ScoreMatrices).
MaxShift == 1
\* fake_date_fill's 'slice' policy keeps its slice only from this many rows on.
MinSliceRows == 8

(***************************************************************************)
(* Cells: floats as exact rationals, and NaN.                              *)
(***************************************************************************)
NaN == <<0, 0>>

IsNaN(x) == x[2] = 0

Abs(n) == IF n < 0 THEN -n ELSE n

RECURSIVE GCD(_, _)
GCD(a, b) == IF b = 0 THEN a ELSE GCD(b, a % b)

\* The rational n/d (d > 0) in lowest terms.
Rat(n, d) ==
    LET g == GCD(Abs(n), d)
    IN  <<(IF n < 0 THEN -(Abs(n) \div g) ELSE n \div g), d \div g>>

Num(n) == <<n, 1>>

\* Float addition, multiplication and division: NaN propagates.
Add(x, y) ==
    IF IsNaN(x) \/ IsNaN(y) THEN NaN
    ELSE Rat(x[1] * y[2] + y[1] * x[2], x[2] * y[2])

Mul(x, y) ==
    IF IsNaN(x) \/ IsNaN(y) THEN NaN
    ELSE Rat(x[1] * y[1], x[2] * y[2])

\* x / n for an integer n > 0.
DivInt(x, n) == IF IsNaN(x) THEN NaN ELSE Rat(x[1], x[2] * n)

\* x < y for two numbers.
Less(x, y) == x[1] * y[2] < y[1] * x[2]

RECURSIVE SumSeq(_)
SumSeq(s) == IF s = <<>> THEN Num(0) ELSE Add(s[1], SumSeq(Tail(s)))

\* np.nan_to_num on a finite-or-NaN float.
nan_to_num(x) == IF IsNaN(x) THEN Num(0) ELSE x

\* bool * float, as in np.isnan(arr) * values.
BoolTimes(b, x) == IF b THEN x ELSE Mul(Num(0), x)

(***************************************************************************)
(* Tables.                                                                 *)
(***************************************************************************)
NRows(t) == Len(t.index)

NCols(t) == Len(t.columns)

\* DataFrame.empty: some axis has length zero.
Empty(t) == NRows(t) = 0 \/ NCols(t) = 0

\* pd.DataFrame(arr, index=t.index, columns=t.columns)
Frame(t, arr) == [index |-> t.index, columns |-> t.columns, data |-> arr]

\* The sequence <<f(1), ..., f(n)>>.
RECURSIVE BuildTo(_, _)
BuildTo(f(_), n) == IF n = 0 THEN <<>> ELSE Append(BuildTo(f, n - 1), f(n))

BuildSeq(n, f(_)) == BuildTo(f, n)

\* The table of f(r, c) under t's labels.
MapCells(t, f(_, _)) ==
    Frame(t, BuildSeq(NRows(t), LAMBDA r : BuildSeq(NCols(t), LAMBDA c : f(r, c))))

Column(t, c) == BuildSeq(NRows(t), LAMBDA r : t.data[r][c])

HasNaN(t) == \E r \in 1..NRows(t) : \E c \in 1..NCols(t) : IsNaN(t.data[r][c])

\* The subsequence of s at the positions satisfying keep.
RECURSIVE SelectPos(_, _, _)
SelectPos(s, keep(_), i) ==
    IF i > Len(s) THEN <<>>
    ELSE IF keep(i) THEN <<s[i]>> \o SelectPos(s, keep, i + 1)
    ELSE SelectPos(s, keep, i + 1)

\* The rows of t satisfying keep, with their labels.
KeepRows(t, keep(_)) ==
    [index |-> SelectPos(t.index, keep, 1),
     columns |-> t.columns,
     data |-> SelectPos(t.data, keep, 1)]

\* The present (non-NaN) cells of a sequence, in order.
Present(s) == SelectSeq(s, LAMBDA x : ~IsNaN(x))

\* The number of present cells of row r.
RowCount(t, r) == Cardinality({c \in 1..NCols(t) : ~IsNaN(t.data[r][c])})

\* DataFrame.dropna(thresh=thresh, axis=0): keep rows with at least thresh present.
DropnaThresh(t, thresh) == KeepRows(t, LAMBDA r : RowCount(t, r) >= thresh)

\* dropna with how="all" in place of how="any".
DropnaAll(t) == KeepRows(t, LAMBDA r : RowCount(t, r) >= 1)

\* DataFrame.dropna(how="any", axis=0): keep rows without a missing cell.
DropnaAny(t) == KeepRows(t, LAMBDA r : RowCount(t, r) = NCols(t))

\* DataFrame.fillna(other): missing cells take other's cell at the same place.
FillnaFrame(t, other) ==
    MapCells(t, LAMBDA r, c :
        IF IsNaN(t.data[r][c]) THEN other.data[r][c] ELSE t.data[r][c])

(***************************************************************************)
(* The simple fills.                                                       *)
(***************************************************************************)
fill_zero(t) ==
    MapCells(t, LAMBDA r, c : IF IsNaN(t.data[r][c]) THEN Num(0) ELSE t.data[r][c])

\* fillna(method='ffill'): the last present cell at or above r, else NaN.
Ffill(t) ==
    MapCells(t, LAMBDA r, c :
        LET P == {q \in 1..r : ~IsNaN(t.data[q][c])}
        IN  IF P = {} THEN NaN
            ELSE t.data[CHOOSE q \in P : \A p \in P : p <= q][c])

\* fillna(method='bfill'): the first present cell at or below r, else NaN.
Bfill(t) ==
    MapCells(t, LAMBDA r, c :
        LET P == {q \in r..NRows(t) : ~IsNaN(t.data[q][c])}
        IN  IF P = {} THEN NaN
            ELSE t.data[CHOOSE q \in P : \A p \in P : q <= p][c])

\* fill_forward without its final fillna(0).
fill_forward_NoZero(t) == Bfill(Ffill(t))

fill_forward(t) == fill_zero(Bfill(Ffill(t)))

\* np.nanmean of a column: NaN when nothing is present.
nanmean(col) ==
    LET p == Present(col)
    IN  IF p = <<>> THEN NaN ELSE DivInt(SumSeq(p), Len(p))

\* s (sorted ascending) with x inserted at its place.
RECURSIVE Insert(_, _)
Insert(s, x) ==
    IF s = <<>> THEN <<x>>
    ELSE IF Less(x, s[1]) THEN <<x>> \o s
    ELSE <<s[1]>> \o Insert(Tail(s), x)

RECURSIVE SortCells(_)
SortCells(s) == IF s = <<>> THEN <<>> ELSE Insert(SortCells(Tail(s)), s[1])

\* np.nanmedian of a column: NaN when nothing is present.
nanmedian(col) ==
    LET p == SortCells(Present(col))
        n == Len(p)
    IN  IF n = 0 THEN NaN
        ELSE IF n % 2 = 1 THEN p[(n + 1) \div 2]
        ELSE DivInt(Add(p[n \div 2], p[n \div 2 + 1]), 2)

\* np.nan_to_num(arr) + np.isnan(arr) * np.nan_to_num(np.nanmean(arr, axis=0))
fill_mean(t) ==
    LET means == BuildSeq(NCols(t), LAMBDA c : nan_to_num(nanmean(Column(t, c))))
    IN  MapCells(t, LAMBDA r, c :
            Add(nan_to_num(t.data[r][c]), BoolTimes(IsNaN(t.data[r][c]), means[c])))

\* np.nan_to_num(arr) + pd.isna(arr) * np.nan_to_num(np.nanmedian(arr, axis=0))
fill_median(t) ==
    LET medians == BuildSeq(NCols(t), LAMBDA c : nan_to_num(nanmedian(Column(t, c))))
    IN  MapCells(t, LAMBDA r, c :
            Add(nan_to_num(t.data[r][c]), BoolTimes(IsNaN(t.data[r][c]), medians[c])))

\* df.rolling(window=w, min_periods=1).mean(): the mean of the present cells
\* among the last w rows up to and including r.
RollingMean(t, w) ==
    LET cols == BuildSeq(NCols(t), LAMBDA c : Column(t, c))
    IN  MapCells(t, LAMBDA r, c :
            nanmean(SubSeq(cols[c], IF r - w + 1 < 1 THEN 1 ELSE r - w + 1, r)))

rolling_mean(t, w) ==
    LET rolled == RollingMean(t, w)
    IN  fill_forward(FillnaFrame(t, rolled))

\* biased_ffill dividing by mean_weight in place of 1 + mean_weight.
biased_ffill_NoDivide(t) ==
    LET df_mean == fill_mean(t)
        df_ffill == fill_forward(t)
    IN  MapCells(t, LAMBDA r, c :
            DivInt(Add(Mul(df_mean.data[r][c], Num(1)), df_ffill.data[r][c]), 1))

\* (df_mean * mean_weight + df_ffill) / (1 + mean_weight), mean_weight = 1.
biased_ffill(t) ==
    LET df_mean == fill_mean(t)
        df_ffill == fill_forward(t)
    IN  MapCells(t, LAMBDA r, c :
            DivInt(Add(Mul(df_mean.data[r][c], Num(1)), df_ffill.data[r][c]), 2))

(***************************************************************************)
(* fake_date_fill: the gap compressor and its tail policies.               *)
(***************************************************************************)
\* The ascending sequence of a finite set of integers.
RECURSIVE SortAsc(_)
SortAsc(S) ==
    IF S = {} THEN <<>>
    ELSE LET m == CHOOSE x \in S : \A y \in S : x <= y
         IN  <<m>> \o SortAsc(S \ {m})

\* to_sort without the negation of the missing cells' positions.
ToSort_Unsigned(t, r, c) == r - 1

\* np.where(np.isnan(arr), -indices0, indices0), with 0-based row positions.
ToSort(t, r, c) == IF IsNaN(t.data[r][c]) THEN -(r - 1) ELSE r - 1

\* arr[np.abs(np.sort(to_sort, axis=0)), indices[1]] under the input's labels.
Compress(t) ==
    LET sorted == BuildSeq(NCols(t), LAMBDA c :
                      SortAsc({ToSort(t, r, c) : r \in 1..NRows(t)}))
    IN  MapCells(t, LAMBDA r, c : t.data[Abs(sorted[c][r]) + 1][c])

\* thresh without its floor of 1.
SliceThresh_NoFloor(t) == NCols(t) \div 2

\* thresh = int(df.shape[1] * 0.5); thresh = thresh if thresh > 1 else 1
SliceThresh(t) == IF NCols(t) \div 2 > 1 THEN NCols(t) \div 2 ELSE 1

Returned(t) == [raised |-> FALSE, value |-> t]

NoTable == [index |-> <<>>, columns |-> <<>>, data |-> <<>>]

ValueError == [raised |-> TRUE, value |-> NoTable]

SlicePolicy(t, df2) ==
    LET df3 == DropnaThresh(df2, SliceThresh(t))
    IN  IF Empty(df3) \/ NRows(df3) < MinSliceRows
        THEN fill_forward(df2)
        ELSE fill_forward(df3)

fake_date_fill(t, bm) ==
    LET compressed == Compress(t)
        df2 == IF Empty(compressed) THEN fill_zero(t) ELSE compressed
    IN  CASE bm = "bfill" -> Returned(fill_forward(df2))
          [] bm = "slice" -> Returned(SlicePolicy(t, df2))
          [] bm = "slice_all" -> Returned(DropnaAny(df2))
          [] bm = "keepna" -> Returned(df2)
          [] OTHER -> ValueError

(***************************************************************************)
(* SeasonalityMotifImputer.impute.                                         *)
(***************************************************************************)
\* np.argsort of one row of scores: positions by ascending score.
RECURSIVE ArgSortFrom(_, _)
ArgSortFrom(s, J) ==
    IF J = {} THEN <<>>
    ELSE LET m == CHOOSE j \in J : \A i \in J : s[j] < s[i] \/ (s[j] = s[i] /\ j <= i)
         IN  <<m>> \o ArgSortFrom(s, J \ {m})

ArgSort(s) == ArgSortFrom(s, 1..Len(s))

\* full_dist = np.argsort(scores)
FullDist(sc) == BuildSeq(Len(sc), LAMBDA i : ArgSort(sc[i]))

\* arrd[i, c, :]: column c in row i's similarity order full_dist[i].
Arrd(t, full_dist, i, c) == BuildSeq(NRows(t), LAMBDA j : t.data[full_dist[i][j]][c])

\* A cumulative count that counts the missing candidates too.
CumPresent_All(a, j) == j

\* np.cumsum(~arrd_mask, axis=-1) at position j.
CumPresent(a, j) == Cardinality({q \in 1..j : ~IsNaN(a[q])})

\* temp.sum(axis=2): NaN set to 0, positions with cumsum > kk masked out.
MaskedSum(a, kk) ==
    SumSeq(SelectPos(BuildSeq(Len(a), LAMBDA j : nan_to_num(a[j])),
                     LAMBDA j : ~(CumPresent(a, j) > kk), 1))

\* test = (temp.sum(axis=2) / self.k).data
ImputedCell(a, kk) == DivInt(MaskedSum(a, kk), kk)

\* self.df_impt
DfImpt(t, kk, sc) ==
    LET full_dist == FullDist(sc)
    IN  MapCells(t, LAMBDA r, c : ImputedCell(Arrd(t, full_dist, r, c), kk))

\* df.where(~df.isnull(), self.df_impt)
Where(t, other) ==
    MapCells(t, LAMBDA r, c :
        IF ~IsNaN(t.data[r][c]) THEN t.data[r][c] ELSE other.data[r][c])

impute(t, kk, sc) ==
    LET imputed == DfImpt(t, kk, sc)
    IN  Where(t, imputed)

(***************************************************************************)
(* FillNA: the dispatcher.  A method identifier is a sequence of tokens,   *)
(* each a word or one of the characters " " and "_".                       *)
(***************************************************************************)
\* str(method).replace(" ", "_")
Normalize(m) == [i \in 1..Len(m) |-> IF m[i] = " " THEN "_" ELSE m[i]]

\* k=3 of the imputer FillNA constructs.
MotifK == 3

\* window=24 of 'rolling_mean_24'.
Window24 == 24

\* FillNA's default window.
DefaultWindow == 10

\* An unknown method that raises, as fake_date_fill's unknown back_method does.
UnknownMethod_Raise(t) == ValueError

\* print("FillNA method ... not known, returning original"); return df
UnknownMethod(t) == Returned(t)

FillNA(t, m, w, sc) ==
    LET meth == Normalize(m)
    IN  CASE meth = <<"zero">> -> Returned(fill_zero(t))
          [] meth = <<"ffill">> -> Returned(fill_forward(t))
          [] meth = <<"mean">> -> Returned(fill_mean(t))
          [] meth = <<"median">> -> Returned(fill_median(t))
          [] meth = <<"rolling", "_", "mean">> -> Returned(rolling_mean(t, w))
          [] meth = <<"rolling", "_", "mean", "_", "24">> ->
                 Returned(rolling_mean(t, Window24))
          [] meth = <<"ffill", "_", "mean", "_", "biased">> -> Returned(biased_ffill(t))
          [] meth = <<"fake", "_", "date">> -> fake_date_fill(t, "slice")
          [] meth = <<"fake", "_", "date", "_", "slice">> -> fake_date_fill(t, "slice_all")
          [] meth = <<"SeasonalityMotifImputer">> -> Returned(impute(t, MotifK, sc))
          [] meth = <<"None">> -> Returned(t)
          [] OTHER -> UnknownMethod(t)

(***************************************************************************)
(* Inputs.                                                                 *)
(***************************************************************************)
\* The value of cell (r, c) under scheme s: rising from 0 (s = 0), constant
\* (s = 1), falling (s >= 2).
CellValue(s, r, c) == Num((1 - s) * (r + c - 2) + s)

ColumnLabels == <<"a", "b", "c", "d", "e", "f", "g", "h">>

\* Row labels stand for strictly increasing timestamps.
RowLabel(r) == 2000 + r

\* The R x C table of scheme s whose cells in M are missing.
MkTable(R, C, s, M) ==
    [index |-> [r \in 1..R |-> RowLabel(r)],
     columns |-> [c \in 1..C |-> ColumnLabels[c]],
     data |-> [r \in 1..R |-> [c \in 1..C |->
                  IF <<r, c>> \in M THEN NaN ELSE CellValue(s, r, c)]]]

\* The masks over the cells S with few cells missing or few cells present.
OddMasks(S) ==
    {M \in SUBSET S : Cardinality(M) <= MaxOdd \/ Cardinality(S \ M) <= MaxOdd}

SmallTables ==
    UNION {UNION {UNION {{MkTable(R, C, s, M) : M \in OddMasks((1..R) \X (1..C))}
        : s \in 0..MaxScheme} : C \in 1..MaxCols} : R \in 1..MaxRows}

\* The rows missing in a tall column with m gaps: every other row, or all rows.
GapRows(R, m) == IF m = R THEN 1..R ELSE {2 * i : i \in 1..m}

\* Tall tables: columns 1..j have a gaps each, the columns after them b gaps.
TallTables ==
    UNION {UNION {
        {MkTable(R, C, 0, {<<r, c>> \in (1..R) \X (1..C) :
                              r \in GapRows(R, IF c <= g[1] THEN g[2] ELSE g[3])})
            : g \in (1..C) \X ((0..MaxGap) \cup {R}) \X ((0..MaxGap) \cup {R})}
        : C \in 1..TallCols} : R \in MinSliceRows..(MinSliceRows + TallExtra)}

Tables == SmallTables \cup TallTables

BackMethods == {"bfill", "slice", "slice_all", "keepna", "drop"}

Methods ==
    {<<"zero">>, <<"ffill">>, <<"mean">>, <<"median">>,
     <<"rolling", "_", "mean">>, <<"rolling", " ", "mean">>,
     <<"rolling", "_", "mean", "_", "24">>,
     <<"ffill", "_", "mean", "_", "biased">>, <<"ffill", " ", "mean", " ", "biased">>,
     <<"fake", "_", "date">>, <<"fake", " ", "date">>,
     <<"fake", "_", "date", "_", "slice">>,
     <<"SeasonalityMotifImputer">>, <<"None">>,
     <<"not", "_", "a", "_", "real", "_", "method">>, <<"fake", " ", "data">>}

\* The distance scores of seasonal_independent_match for R rows: row i scores
\* row j by its cyclic offset from i, forwards or backwards, shifted by t.
ScoreMatrices(R) ==
    {[i \in 1..R |-> [j \in 1..R |-> (dir * (j - i) + t) % R]]
        : t \in 0..(IF R - 1 < MaxShift THEN R - 1 ELSE MaxShift), dir \in {1, -1}}

NoScores == <<>>

(***************************************************************************)
(* The state machine: one call on an input table.                          *)
(***************************************************************************)
Start(T) ==
    /\ df \in T
    /\ pc = "call"
    /\ back_method = ""
    /\ method = <<>>
    /\ window = 0
    /\ k = 0
    /\ scores = NoScores
    /\ result = NoTable
    /\ raised = FALSE
    /\ df_impt = NoTable

Init == Start(Tables)

InitSmall == Start(SmallTables)

\* fake_date_fill(df, back_method=bm)
CallFakeDateFill ==
    /\ pc = "call"
    /\ \E bm \in BackMethods :
        LET ret == fake_date_fill(df, bm)
        IN  /\ back_method' = bm
            /\ result' = ret.value
            /\ raised' = ret.raised
    /\ pc' = "done"
    /\ UNCHANGED <<df, method, window, k, scores, df_impt>>

\* FillNA(df, method=m, window=w)
CallFillNA ==
    /\ pc = "call"
    /\ \E m \in Methods :
       \E w \in (IF Normalize(m) = <<"rolling", "_", "mean">>
                 THEN (1..MaxWindow) \cup {DefaultWindow} ELSE {DefaultWindow}) :
       \E sc \in (IF Normalize(m) = <<"SeasonalityMotifImputer">>
                  THEN ScoreMatrices(NRows(df)) ELSE {NoScores}) :
        LET ret == FillNA(df, m, w, sc)
        IN  /\ method' = m
            /\ window' = w
            /\ scores' = sc
            /\ result' = ret.value
            /\ raised' = ret.raised
    /\ pc' = "done"
    /\ UNCHANGED <<df, back_method, k, df_impt>>

\* SeasonalityMotifImputer(k=kk).impute(df)
CallImpute ==
    /\ pc = "call"
    /\ \E kk \in 1..MaxK : \E sc \in ScoreMatrices(NRows(df)) :
        LET imputed == DfImpt(df, kk, sc)
        IN  /\ k' = kk
            /\ scores' = sc
            /\ df_impt' = imputed
            /\ result' = Where(df, imputed)
    /\ raised' = FALSE
    /\ pc' = "done"
    /\ UNCHANGED <<df, back_method, method, window>>

\* Calls of fake_date_fill on small and tall tables.
SpecFakeDate == Init /\ [][CallFakeDateFill]_vars

\* Calls of FillNA on small and tall tables.
SpecFillNA == Init /\ [][CallFillNA]_vars

\* Calls of SeasonalityMotifImputer.impute on small tables.
SpecImpute == InitSmall /\ [][CallImpute]_vars

Next == CallFakeDateFill \/ CallFillNA \/ CallImpute

Spec == Init /\ [][Next]_vars

(***************************************************************************)
(* Vocabulary of the properties.                                           *)
(***************************************************************************)
Done == pc = "done"

Rows(t) == 1..NRows(t)

Cols(t) == 1..NCols(t)

Missing(t, r, c) == IsNaN(t.data[r][c])

\* The number of missing cells of column c.
MissCount(t, c) == Cardinality({r \in Rows(t) : Missing(t, r, c)})

\* The largest per-column count of missing cells.
MaxMissCount(t) ==
    CHOOSE n \in 0..NRows(t) :
        /\ \A c \in Cols(t) : MissCount(t, c) <= n
        /\ \E c \in Cols(t) : MissCount(t, c) = n

\* The present values of column c, in row order.
PresentValues(t, c) == Present(Column(t, c))

NaNs(n) == BuildSeq(n, LAMBDA i : NaN)

SameLabels(a, b) == a.index = b.index /\ a.columns = b.columns

WellShaped(t) ==
    /\ Len(t.data) = NRows(t)
    /\ \A r \in Rows(t) : Len(t.data[r]) = NCols(t)

IsSuffix(a, b) == Len(a) <= Len(b) /\ a = SubSeq(b, Len(b) - Len(a) + 1, Len(b))

\* Each column as its missing cells followed by its present values in order.
GapsFirst(t) ==
    MapCells(t, LAMBDA r, c :
        IF r <= MissCount(t, c) THEN NaN
        ELSE PresentValues(t, c)[r - MissCount(t, c)])

\* Forward fill, then back fill, then zero, cell by cell.
ForwardBackZero(t) ==
    MapCells(t, LAMBDA r, c :
        LET above == {q \in 1..r : ~Missing(t, q, c)}
            below == {q \in r..NRows(t) : ~Missing(t, q, c)}
        IN  IF above # {} THEN t.data[CHOOSE q \in above : \A p \in above : p <= q][c]
            ELSE IF below # {}
            THEN t.data[CHOOSE q \in below : \A p \in below : q <= p][c]
            ELSE Num(0))

RECURSIVE SumCells(_, _, _)
SumCells(t, S, c) ==
    IF S = {} THEN Num(0)
    ELSE LET j == CHOOSE x \in S : TRUE
         IN  Add(t.data[j][c], SumCells(t, S \ {j}, c))

\* The rows present in column c that fewer than kk present rows precede in
\* row r's order of ascending score.
Analogs(t, sc, kk, r, c) ==
    {j \in Rows(t) :
        /\ ~Missing(t, j, c)
        /\ Cardinality({i \in Rows(t) : ~Missing(t, i, c) /\ sc[r][i] < sc[r][j]}) < kk}

MZero == <<"zero">>
MFfill == <<"ffill">>
MMean == <<"mean">>
MMedian == <<"median">>
MRollingMean == <<"rolling", "_", "mean">>
MRollingMean24 == <<"rolling", "_", "mean", "_", "24">>
MBiased == <<"ffill", "_", "mean", "_", "biased">>
MFakeDate == <<"fake", "_", "date">>
MFakeDateSlice == <<"fake", "_", "date", "_", "slice">>
MMotif == <<"SeasonalityMotifImputer">>
MUnknown == <<"not", "_", "a", "_", "real", "_", "method">>

\* Every identifier FillNA's dispatch names.
Recognized ==
    {MZero, MFfill, MMean, MMedian, MRollingMean, MRollingMean24, MBiased,
     MFakeDate, MFakeDateSlice, MMotif, <<"None">>,
     <<"IterativeImputer">>, <<"IterativeImputerExtraTrees">>, <<"KNNImputer">>,
     <<"DatepartRegressionImputer">>,
     <<"linear">>, <<"time">>, <<"pad">>, <<"nearest">>, <<"quadratic">>,
     <<"cubic">>, <<"spline">>, <<"barycentric">>, <<"piecewise", "_", "polynomial">>,
     <<"pchip">>, <<"akima">>, <<"polynomial">>, <<"krogh">>, <<"cubicspline">>,
     <<"from", "_", "derivatives">>, <<"slinear">>}

\* A missing cell of the result is one of the imputer's, in a column with no
\* present value at all.
OnlyPermittedGaps ==
    \A r \in Rows(result) : \A c \in Cols(result) :
        Missing(result, r, c) =>
            /\ Normalize(method) = MMotif
            /\ MissCount(df, c) = NRows(df)

(***************************************************************************)
(* C1.  Every fill method of FillNA returns the input's row index and      *)
(* column labels and no missing cell, but for imputer cells without a      *)
(* valid analog.                                                           *)
(***************************************************************************)
C1Methods ==
    {MZero, MFfill, MMean, MMedian, MRollingMean, MRollingMean24, MBiased,
     MFakeDate, MFakeDateSlice, MMotif}

\* C1 as stated: the row index is the input's for every method.  Stated for
\* the tables with a present value in every column, where no result rests on
\* how a wholly missing column is treated.
C1_SameIndexForEveryMethod ==
    (/\ Done
     /\ Normalize(method) \in C1Methods
     /\ \A c \in Cols(df) : MissCount(df, c) < NRows(df)) =>
        /\ ~raised
        /\ SameLabels(result, df)
        /\ WellShaped(result)
        /\ OnlyPermittedGaps

\* C1 amended: the column labels are the input's and no cell is missing (but
\* for the permitted imputer cells); the row index is the input's for every
\* method but fake_date and fake_date_slice, which return a trailing run of
\* the input's rows.
C1_LabelsAndCoverage ==
    (Done /\ Normalize(method) \in C1Methods) =>
        /\ ~raised
        /\ result.columns = df.columns
        /\ IF Normalize(method) \in {MFakeDate, MFakeDateSlice}
           THEN IsSuffix(result.index, df.index)
           ELSE result.index = df.index
        /\ WellShaped(result)
        /\ OnlyPermittedGaps

\* fake_date has dropped rows of a table with missing cells.
C1_Witness ==
    /\ Done
    /\ Normalize(method) = MFakeDate
    /\ HasNaN(df)
    /\ NRows(result) < NRows(df)
    /\ ~HasNaN(result)

(***************************************************************************)
(* C2.  keepna lays every column out as its present values in order        *)
(* followed by its missing cells.                                          *)
(***************************************************************************)
\* C2 as stated: present values first, missing cells at the tail.
C2_GapsAtTail ==
    (Done /\ back_method = "keepna") =>
        /\ ~raised
        /\ SameLabels(result, df)
        /\ \A c \in Cols(df) :
               Column(result, c) = PresentValues(df, c) \o NaNs(MissCount(df, c))

\* C2 amended: under the original labels every column is its missing cells at
\* the head (the earlier rows) followed by its present values in their
\* original order.
C2_GapsAtHead ==
    (Done /\ back_method = "keepna") =>
        /\ ~raised
        /\ SameLabels(result, df)
        /\ \A c \in Cols(df) :
               Column(result, c) = NaNs(MissCount(df, c)) \o PresentValues(df, c)

\* keepna on a column with a gap between two different present values.
C2_Witness ==
    /\ Done
    /\ back_method = "keepna"
    /\ \E c \in Cols(df) : \E r1, r2, r3 \in Rows(df) :
          /\ r1 < r2 /\ r2 < r3
          /\ ~Missing(df, r1, c) /\ Missing(df, r2, c) /\ ~Missing(df, r3, c)
          /\ df.data[r1][c] # df.data[r3][c]
          /\ result.data[r3][c] = df.data[r3][c]

(***************************************************************************)
(* C5.  A table with rows and columns and no present value comes back      *)
(* zero-filled under every tail policy.                                    *)
(***************************************************************************)
C5_AllMissingZeroFilled ==
    (/\ Done
     /\ back_method \in {"bfill", "slice", "slice_all", "keepna"}
     /\ \A r \in Rows(df) : \A c \in Cols(df) : Missing(df, r, c)) =>
        /\ ~raised
        /\ result = fill_zero(df)

(***************************************************************************)
(* C8.  slice_all returns the complete rows of the compressed table: no    *)
(* missing cell, and the input's row count less the largest per-column     *)
(* count of missing cells.                                                 *)
(***************************************************************************)
C8_SliceAll ==
    (Done /\ back_method = "slice_all") =>
        LET drop == MaxMissCount(df)
        IN  /\ ~raised
            /\ ~HasNaN(result)
            /\ WellShaped(result)
            /\ result.columns = df.columns
            /\ NRows(result) = NRows(df) - drop
            /\ result.index = SubSeq(df.index, drop + 1, NRows(df))
            /\ \A i \in Rows(result) : \A c \in Cols(df) :
                   result.data[i][c] =
                       PresentValues(df, c)[i + drop - MissCount(df, c)]

\* slice_all on a two-column table with a single missing cell drops one row.
C8_Witness ==
    /\ Done
    /\ back_method = "slice_all"
    /\ NCols(df) = 2
    /\ NRows(df) >= 3
    /\ MissCount(df, 1) + MissCount(df, 2) = 1
    /\ NRows(result) = NRows(df) - 1

(***************************************************************************)
(* C9.  slice drops the compressed rows with fewer than                    *)
(* max(1, floor(columns / 2)) present cells, falls back to the whole       *)
(* compressed table when fewer than 8 rows remain, and forward/back/zero   *)
(* fills what it keeps.                                                    *)
(***************************************************************************)
C9_Slice ==
    (Done /\ back_method = "slice") =>
        LET t == IF NCols(df) \div 2 >= 1 THEN NCols(df) \div 2 ELSE 1
            comp == GapsFirst(df)
            keep == {r \in Rows(df) : RowCount(comp, r) >= t}
            sliced == KeepRows(comp, LAMBDA r : r \in keep)
        IN  /\ ~raised
            /\ result = IF keep = {} \/ Cardinality(keep) < MinSliceRows
                        THEN ForwardBackZero(comp)
                        ELSE ForwardBackZero(sliced)
            /\ ~HasNaN(result)
            /\ NRows(result) = NRows(df) \/ NRows(result) >= MinSliceRows

\* slice with a threshold of two present cells keeps a slice of eight rows.
C9_Witness ==
    /\ Done
    /\ back_method = "slice"
    /\ NCols(df) = 4
    /\ \E r \in Rows(df) : RowCount(GapsFirst(df), r) = 1
    /\ NRows(result) = MinSliceRows
    /\ NRows(df) = MinSliceRows + 1

(***************************************************************************)
(* C6.  On a table without a missing cell every method of FillNA returns   *)
(* the table itself.                                                       *)
(***************************************************************************)
C6Methods ==
    {MZero, MFfill, MMean, MMedian, MRollingMean, MBiased, MFakeDate,
     MFakeDateSlice, MMotif}

C6_NoOpOnComplete ==
    (Done /\ ~HasNaN(df) /\ Normalize(method) \in C6Methods) =>
        /\ ~raised
        /\ result = df

\* ffill_mean_biased on a complete table of different values.
C6_Witness ==
    /\ Done
    /\ ~HasNaN(df)
    /\ Normalize(method) = MBiased
    /\ NRows(df) >= 2
    /\ df.data[1][1] # df.data[2][1]
    /\ result = df

(***************************************************************************)
(* C7.  An identifier FillNA does not know returns the input unchanged,    *)
(* missing cells included, and does not raise.                             *)
(***************************************************************************)
C7_UnknownMethodFailsOpen ==
    (Done /\ Normalize(method) \notin Recognized) =>
        /\ ~raised
        /\ result = df

\* "not_a_real_method" on a table with missing cells.
C7_Witness ==
    /\ Done
    /\ method = MUnknown
    /\ HasNaN(df)
    /\ result = df

(***************************************************************************)
(* C3.  A missing cell with m valid analogs, 0 < m < k, is imputed as the   *)
(* mean of those m values.                                                 *)
(***************************************************************************)
C3_MeanOfAvailable ==
    Done =>
        \A r \in Rows(df) : \A c \in Cols(df) :
            LET p == PresentValues(df, c)
            IN  (Missing(df, r, c) /\ 0 < Len(p) /\ Len(p) < k) =>
                    result.data[r][c] = DivInt(SumSeq(p), Len(p))

(***************************************************************************)
(* C4.  A missing cell in a column without any present value stays         *)
(* missing, and the call does not raise.                                   *)
(***************************************************************************)
C4_NoAnalogStaysMissing ==
    Done =>
        /\ ~raised
        /\ \A r \in Rows(df) : \A c \in Cols(df) :
               (Missing(df, r, c) /\ MissCount(df, c) = NRows(df)) =>
                   Missing(result, r, c)

(***************************************************************************)
(* C10.  A missing cell whose column has at least k present values is      *)
(* imputed as the mean of the first k present values in its row's          *)
(* similarity order; present cells keep their value.                       *)
(***************************************************************************)
C10_MeanOfNearest ==
    Done =>
        /\ ~raised
        /\ SameLabels(result, df)
        /\ WellShaped(result)
        /\ \A r \in Rows(df) : \A c \in Cols(df) :
               IF ~Missing(df, r, c) THEN result.data[r][c] = df.data[r][c]
               ELSE (NRows(df) - MissCount(df, c) >= k) =>
                        result.data[r][c] =
                            DivInt(SumCells(df, Analogs(df, scores, k, r, c), c), k)

\* A cell imputed from k analogs, a missing candidate ranking before one of them.
C10_Witness ==
    /\ Done
    /\ \E r \in Rows(df) : \E c \in Cols(df) :
          /\ Missing(df, r, c)
          /\ NRows(df) - MissCount(df, c) >= k
          /\ \E i \in Rows(df) : \E j \in Analogs(df, scores, k, r, c) :
                 Missing(df, i, c) /\ scores[r][i] < scores[r][j]
          /\ result.data[r][c] # Num(0)

====
